---- MODULE Spec2Model ----
(***************************************************************************)
(* Model of the AI agent service (apps/ai_agent): the text chunker and the *)
(* text extractor of the embedding service (embedding_service.py), the     *)
(* chat service (langgraph_service.py) and the REST handlers in front of   *)
(* them (main.py), and the in-memory message API of apps/ai-agent.         *)
(* A text is a sequence of one-character strings; offsets are Python's     *)
(* 0-based offsets, so text[i] in the source is text[i + 1] here.          *)
(***************************************************************************)
EXTENDS Integers, Sequences, FiniteSets, TLC

\* ---------------------------------------------------------------- bounds
\* Worker threads of the message API, and requests they serve in all.
MaxWorkers == 2
MaxRequests == 4
\* Longest input text and largest chunk_size of the general specification.
MaxLen == 7
MaxS == 5
\* Longest input text of the specification with fairness.
LiveLen == 6
\* The large-overlap specification: one window size, texts up to DeepLen.
DeepLen == 13
DeepSize == 9

\* Characters the input texts are drawn from: a letter, a sentence mark, and
\* a whitespace character that, doubled, is a blank line.
Alphabet == {"a", ".", "\n"}
DeepAlphabet == {"a", "."}

VARIABLES
    text,           \* argument text
    chunk_size,     \* argument chunk_size
    overlap,        \* argument overlap
    pc,             \* "call", "while" (loop head, line 163), "return"
    start,          \* local start
    end,            \* local end (0 while unbound)
    chunk,          \* local chunk, before strip (<<>> while unbound)
    last_sentence,  \* local last_sentence (-1 while unbound)
    chunks,         \* the list being built, returned at "return"
    spans,          \* history: <<first, stop>> offsets of each appended chunk
    win_start,      \* history: value of start at the top of the last iteration
    path,           \* history: branch taken by the last step
    parity,         \* history: number of loop iterations so far, modulo 2
    iterations      \* history: number of loop iterations so far, up to Cap + 1

chunkVars == <<text, chunk_size, overlap, pc, start, end, chunk,
               last_sentence, chunks, spans, win_start, path, parity,
               iterations>>

\* extract_text_from_file and the three decoders it dispatches to.
VARIABLES
    PdfReader,      \* module-level name, lines 16-19: "None" if PyPDF2 is missing
    DocxDocument,   \* module-level name, lines 21-24: "None" if docx is missing
    file_content,   \* argument file_content, a sequence of bytes
    file_type,      \* argument file_type, rebound by line 144
    filename,       \* argument filename
    xpc,            \* position of the call: "idle", "call", "pdf", "pdf_pages",
                    \* "docx", "docx_paragraphs", "txt", "done"
    doc_text,       \* local text of the PDF and DOCX decoders
    n_read,         \* pages or paragraphs iterated so far
    encoding,       \* position of the loop of line 130 in its list
    outcome,        \* how the call ended: <<"return", text>> or
                    \* <<"raise", exception, message, detail>>
    type_arg,       \* history: file_type as the caller passed it
    invoked,        \* history: the decoders called, in order
    tried,          \* history: the encodings tried, in order
    parser_failed   \* history: the PDF or DOCX parser raised

extractVars == <<PdfReader, DocxDocument, file_content, file_type, filename,
                 xpc, doc_text, n_read, encoding, outcome, type_arg, invoked,
                 tried, parser_failed>>

\* The embedding service object and the module-level singletons behind it.
VARIABLES
    _embeddings,        \* module-level _embeddings, line 57
    _supabase_client,   \* module-level _supabase_client, line 58
    embeddings,         \* self.embeddings, line 68
    supabase            \* self.supabase, line 69

serviceVars == <<_embeddings, _supabase_client, embeddings, supabase>>

\* The chat service (langgraph_service.py) and the REST handlers (main.py).
VARIABLES
    langgraph_service,  \* main.py line 38: "None" or the service object
    embedding_service,  \* main.py lines 21-28: "None" or the service object
    get_client,         \* langgraph_service.py lines 13-17: "None" if no SDK
    client,             \* self.client of the chat service
    failing,            \* the external operations that raise when called
    request,            \* the HTTP request being handled
    hpc,                \* position of its handler
    thread_id,          \* local thread_id of send_message
    run,                \* local run of send_message: the run_id it holds
    state,              \* local state of send_message: the messages read
    calls,              \* history: the external calls made, in order
    service_result,     \* what the service method returned or raised
    response,           \* the HTTP response: <<status, body>>
    documents,          \* local documents of embed_file: the page_content
                        \* length of each chunk (<<>> while unbound)
    limit,              \* argument limit of search_documents (0 while unbound)
    match_count,        \* argument match_count of async_rpc (0 while unbound)
    results             \* local search_results of search_documents

apiVars == <<langgraph_service, embedding_service, get_client, client,
             failing, request, hpc, thread_id, run, state, calls,
             service_result, response, documents, limit, match_count,
             results>>

\* The in-memory message API (apps/ai-agent, main.py) and the worker threads
\* that run its synchronous handlers.
VARIABLES
    messages,         \* module-level messages, line 41
    message_counter,  \* module-level message_counter, line 42
    mrequest,         \* per worker: the request it is handling
    mpc,              \* per worker: position of its handler
    loaded,           \* per worker: the value of message_counter read by
                      \* line 65 and not yet written back
    new_message,      \* per worker: local new_message of create_message
    mresponse,        \* per worker: the last HTTP response, <<status, body>>
    issued,           \* history: the ids given to new messages, in order
    served            \* history: number of requests received

messageVars == <<messages, message_counter, mrequest, mpc, loaded,
                 new_message, mresponse, issued, served>>

vars == <<chunkVars, extractVars, serviceVars, apiVars, messageVars>>

\* ------------------------------------------------------- Python built-ins
Min(a, b) == IF a <= b THEN a ELSE b
Max(a, b) == IF a >= b THEN a ELSE b
SetMax(S) == CHOOSE x \in S : \A y \in S : y <= x
SetMin(S) == CHOOSE x \in S : \A y \in S : x <= y

\* str.strip() with no argument removes these (ASCII) whitespace characters.
Whitespace == {" ", "\t", "\n", "\r", "\f"}
IsSpace(c) == c \in Whitespace

\* Index normalisation of a slice bound: negative bounds count from the end,
\* and every bound is clamped to 0 .. len.
SliceIndex(i, n) == IF i < 0 THEN Max(i + n, 0) ELSE Min(i, n)

\* t[a:b]
Slice(t, a, b) ==
    LET lo == SliceIndex(a, Len(t))
        hi == SliceIndex(b, Len(t))
    IN IF lo >= hi THEN << >> ELSE SubSeq(t, lo + 1, hi)

\* t.rfind(sub): the highest 0-based offset where sub occurs in t, or -1.
rfind(t, sub) ==
    LET hits == {i \in 0..(Len(t) - Len(sub)) :
                    \A k \in 1..Len(sub) : t[i + k] = sub[k]}
    IN IF hits = {} THEN -1 ELSE SetMax(hits)

\* t.strip()
strip(t) ==
    LET keep == {i \in 1..Len(t) : ~IsSpace(t[i])}
    IN IF keep = {} THEN << >> ELSE SubSeq(t, SetMin(keep), SetMax(keep))

\* ------------------------------------------------------------ chunk_text
\* Lines 170-175: the last sentence or paragraph ending inside the chunk,
\* as an offset INTO THE CHUNK (rfind is applied to chunk, not to text).
LastSentence(c) ==
    SetMax({rfind(c, <<".">>), rfind(c, <<"!">>), rfind(c, <<"?">>),
            rfind(c, <<"\n", "\n">>)})

\* WindowEnd with the window one character too long.
WindowEndTooLong(s) == Min(s + chunk_size + 1, Len(text))

\* Line 164
WindowEnd(s) == Min(s + chunk_size, Len(text))

\* Line 165
Window(s) == Slice(text, s, WindowEnd(s))

\* BreakQualifies with the factor 0.5 dropped.
BreakQualifiesWholeWindow(ls, s) == ls > s + chunk_size

\* BreakQualifies with the half-window threshold left out.
BreakQualifiesAnywhere(ls, s) == ls > s

\* Line 177: last_sentence > start + chunk_size * 0.5, doubled to stay integral.
BreakQualifies(ls, s) == 2 * ls > 2 * s + chunk_size

\* BoundaryChunk cut before the boundary character instead of after it.
BoundaryChunkExclusive(s, ls) == Slice(text, s, ls)

\* Line 178: the chunk kept when breaking at the boundary.
BoundaryChunk(s, ls) == Slice(text, s, ls + 1)

\* Line 179
BoundaryNextStart(ls) == ls + 1 - overlap

\* FullNextStart stepping one character past the overlap.
FullNextStartSkipping(e) == e - overlap + 1

\* Line 181
FullNextStart(e) == e - overlap

\* FinalNextStart stepping back by the overlap like the other windows.
FinalNextStartOverlapping(e) == e - overlap

\* Line 183
FinalNextStart(e) == e

\* Line 158
ShortResult(t) == IF strip(t) # << >> THEN <<t>> ELSE << >>

\* A loop that returns never meets the same start twice, and start stays in
\* -overlap .. Len(text) - 1, so it appends at most Cap chunks. A loop that
\* does not return would grow the list for ever; the lists stop growing at
\* Cap to keep its state space finite.
Cap == Len(text) + overlap

\* Emit without the test of line 185.
EmitUnchecked(cs, c) == IF Len(cs) < Cap THEN Append(cs, strip(c)) ELSE cs

\* Lines 185-186
Emit(cs, c) ==
    IF strip(c) # << >> /\ Len(cs) < Cap THEN Append(cs, strip(c)) ELSE cs

\* One more pass through the loop body (lines 163-186). The count stops at
\* Cap + 1, which no loop that returns reaches.
Tick(n) == IF n <= Cap THEN n + 1 ELSE n

\* The offsets of text that slice [a:b) of it holds.
SpanOf(a, b) == <<SliceIndex(a, Len(text)), SliceIndex(b, Len(text))>>

Track(sp, c, a, b) ==
    IF strip(c) # << >> /\ Len(sp) < Cap THEN Append(sp, SpanOf(a, b)) ELSE sp

\* Lines 155-189 assign the locals of chunk_text only: they name no global
\* and no attribute of self.
ChunkTextFrame ==
    UNCHANGED <<extractVars, serviceVars, apiVars, messageVars>>

\* ------------------------------------------------------------------ Init
Texts(alphabet, n) == UNION {[1..k -> alphabet] : k \in 0..n}

\* Lines 67-91, 365: the service object was constructed at import, which
\* initialised both singletons.
ServiceConstructed ==
    /\ _embeddings = "HuggingFaceEmbeddings"
    /\ _supabase_client = "Client"
    /\ embeddings = _embeddings
    /\ supabase = _supabase_client

\* The worker threads of the message API.
Workers == 1..MaxWorkers

\* A new_message that is not bound yet.
Unbound == [id |-> 0, content |-> "", status |-> ""]

\* apps/ai-agent main.py lines 41-42: the message API as imported, with no
\* request received.
MessagesIdle ==
    /\ messages = << >>
    /\ message_counter = 0
    /\ mrequest = [w \in Workers |-> <<"none">>]
    /\ mpc = [w \in Workers |-> "idle"]
    /\ loaded = [w \in Workers |-> 0]
    /\ new_message = [w \in Workers |-> Unbound]
    /\ mresponse = [w \in Workers |-> <<0, "none">>]
    /\ issued = << >>
    /\ served = 0

\* The Python value None where a string is expected.
None == "<None>"

\* No request is being handled.
ApiIdle ==
    /\ langgraph_service = "LangGraphService"
    /\ embedding_service = "EmbeddingService"
    /\ get_client = "get_client"
    /\ client = "client"
    /\ failing = {}
    /\ request = <<"none">>
    /\ hpc = "idle"
    /\ thread_id = None
    /\ run = None
    /\ state = << >>
    /\ calls = << >>
    /\ service_result = <<"none">>
    /\ response = <<0, "none">>
    /\ documents = << >>
    /\ limit = 0
    /\ match_count = 0
    /\ results = << >>

\* No call of extract_text_from_file is in progress.
ExtractIdle ==
    /\ PdfReader = "PdfReader"
    /\ DocxDocument = "DocxDocument"
    /\ file_content = << >>
    /\ file_type = << >>
    /\ filename = "none"
    /\ xpc = "idle"
    /\ doc_text = << >>
    /\ n_read = 0
    /\ encoding = 1
    /\ outcome = <<"none">>
    /\ type_arg = << >>
    /\ invoked = << >>
    /\ tried = << >>
    /\ parser_failed = FALSE

Locals ==
    /\ pc = "call"
    /\ start = 0
    /\ end = 0
    /\ chunk = << >>
    /\ last_sentence = -1
    /\ chunks = << >>
    /\ spans = << >>
    /\ win_start = 0
    /\ path = "none"
    /\ parity = 0
    /\ iterations = 0

\* Any text up to MaxLen and any valid pair 0 <= overlap < chunk_size <= MaxS.
Init ==
    /\ text \in Texts(Alphabet, MaxLen)
    /\ chunk_size \in 1..MaxS
    /\ overlap \in 0..(chunk_size - 1)
    /\ Locals
    /\ MessagesIdle
    /\ ExtractIdle
    /\ ServiceConstructed
    /\ ApiIdle

\* The inputs whose overlap is larger than half of chunk_size.
LargeOverlapInit ==
    /\ text \in Texts(Alphabet, LiveLen)
    /\ chunk_size \in 1..MaxS
    /\ overlap \in {o \in 0..(chunk_size - 1) : 2 * o > chunk_size}
    /\ Locals
    /\ MessagesIdle
    /\ ExtractIdle
    /\ ServiceConstructed
    /\ ApiIdle

\* The inputs whose overlap is at most half of chunk_size, as with the
\* defaults of line 155 (200 and 1000): a window that is cut at its last
\* character or not at all, and the smallest window that can be cut before
\* its last character.
HalfOverlapSizes == {2, MaxS}

HalfOverlapInit ==
    /\ text \in Texts(Alphabet, LiveLen)
    /\ chunk_size \in HalfOverlapSizes
    /\ overlap \in {o \in 0..(chunk_size - 1) : 2 * o <= chunk_size}
    /\ Locals
    /\ MessagesIdle
    /\ ExtractIdle
    /\ ServiceConstructed
    /\ ApiIdle

\* Longer texts of letters and full stops under one window size and an
\* overlap well above half of it.
DeepInit ==
    /\ text \in Texts(DeepAlphabet, DeepLen)
    /\ chunk_size = DeepSize
    /\ overlap = DeepSize - 2
    /\ Locals
    /\ MessagesIdle
    /\ ExtractIdle
    /\ ServiceConstructed
    /\ ApiIdle

\* --------------------------------------------------------------- actions
\* Lines 157-158: the text fits one chunk.
ShortText ==
    /\ pc = "call"
    /\ Len(text) <= chunk_size
    /\ chunks' = ShortResult(text)
    /\ spans' = IF chunks' # << >> THEN <<SpanOf(0, Len(text))>> ELSE << >>
    /\ pc' = "return"
    /\ path' = "short"
    /\ ChunkTextFrame
    /\ UNCHANGED <<text, chunk_size, overlap, start, end, chunk,
                   last_sentence, win_start, parity, iterations>>

\* Lines 160-161
EnterLoop ==
    /\ pc = "call"
    /\ Len(text) > chunk_size
    /\ chunks' = << >>
    /\ start' = 0
    /\ pc' = "while"
    /\ path' = "enter"
    /\ ChunkTextFrame
    /\ UNCHANGED <<text, chunk_size, overlap, end, chunk, last_sentence,
                   spans, win_start, parity, iterations>>

\* Lines 163-179, 185-186: a window before the end of the text with a
\* qualifying boundary.
BoundaryBreak ==
    /\ pc = "while"
    /\ start < Len(text)
    /\ \E e \in {WindowEnd(start)}, ls \in {LastSentence(Window(start))} :
          /\ e < Len(text)
          /\ BreakQualifies(ls, start)
          /\ \E c \in {BoundaryChunk(start, ls)} :
                /\ chunk' = c
                /\ chunks' = Emit(chunks, c)
                /\ spans' = Track(spans, c, start, ls + 1)
          /\ end' = e
          /\ last_sentence' = ls
          /\ start' = BoundaryNextStart(ls)
    /\ win_start' = start
    /\ path' = "boundary"
    /\ parity' = 1 - parity
    /\ iterations' = Tick(iterations)
    /\ ChunkTextFrame
    /\ UNCHANGED <<text, chunk_size, overlap, pc>>

\* Lines 163-177, 180-181, 185-186: a window before the end of the text with
\* no qualifying boundary.
FullWindow ==
    /\ pc = "while"
    /\ start < Len(text)
    /\ \E e \in {WindowEnd(start)}, ls \in {LastSentence(Window(start))} :
          /\ e < Len(text)
          /\ ~BreakQualifies(ls, start)
          /\ \E c \in {Window(start)} :
                /\ chunk' = c
                /\ chunks' = Emit(chunks, c)
                /\ spans' = Track(spans, c, start, e)
          /\ end' = e
          /\ last_sentence' = ls
          /\ start' = FullNextStart(e)
    /\ win_start' = start
    /\ path' = "full"
    /\ parity' = 1 - parity
    /\ iterations' = Tick(iterations)
    /\ ChunkTextFrame
    /\ UNCHANGED <<text, chunk_size, overlap, pc>>

\* Lines 163-168, 182-186: the window that reaches the end of the text.
FinalWindow ==
    /\ pc = "while"
    /\ start < Len(text)
    /\ \E e \in {WindowEnd(start)} :
          /\ ~(e < Len(text))
          /\ \E c \in {Window(start)} :
                /\ chunk' = c
                /\ chunks' = Emit(chunks, c)
                /\ spans' = Track(spans, c, start, e)
          /\ end' = e
          /\ start' = FinalNextStart(e)
    /\ win_start' = start
    /\ path' = "final"
    /\ parity' = 1 - parity
    /\ iterations' = Tick(iterations)
    /\ ChunkTextFrame
    /\ UNCHANGED <<text, chunk_size, overlap, pc, last_sentence>>

\* Lines 163, 188-189: the loop condition fails and the list is returned.
Return ==
    /\ pc = "while"
    /\ ~(start < Len(text))
    /\ pc' = "return"
    /\ ChunkTextFrame
    /\ UNCHANGED <<text, chunk_size, overlap, start, end, chunk,
                   last_sentence, chunks, spans, win_start, path, parity,
               iterations>>

Next ==
    \/ ShortText
    \/ EnterLoop
    \/ BoundaryBreak
    \/ FullWindow
    \/ FinalWindow
    \/ Return

Spec == Init /\ [][Next]_vars

\* chunk_text is one sequential call: while it has a next statement it
\* executes it.
FairSpec == LargeOverlapInit /\ [][Next]_vars /\ WF_vars(Next)

DeepSpec == DeepInit /\ [][Next]_vars

HalfOverlapSpec == HalfOverlapInit /\ [][Next]_vars /\ WF_vars(Next)

\* ================================================ extract_text_from_file
\* Longest file_content, in bytes.
MaxBytes == 2
\* Most pages or paragraphs the parser yields for one document.
MaxPages == 2

\* ------------------------------------------------------- Python built-ins
\* A string literal as the sequence of its characters.
Chars(s) == [i \in 1..Len(s) |-> SubSeq(s, i, i)]

LowerLetters == Chars("abcdefghijklmnopqrstuvwxyz")
UpperLetters == Chars("ABCDEFGHIJKLMNOPQRSTUVWXYZ")
IndexIn(c, letters) == CHOOSE i \in 1..Len(letters) : letters[i] = c
IsUpper(c) == \E i \in 1..Len(UpperLetters) : UpperLetters[i] = c
IsLower(c) == \E i \in 1..Len(LowerLetters) : LowerLetters[i] = c

\* str.lower() with the case conversion left out.
lowerUnchanged(t) == t

\* str.lower()
lower(t) ==
    [i \in 1..Len(t) |->
        IF IsUpper(t[i]) THEN LowerLetters[IndexIn(t[i], UpperLetters)]
        ELSE t[i]]

\* str.upper()
upper(t) ==
    [i \in 1..Len(t) |->
        IF IsLower(t[i]) THEN UpperLetters[IndexIn(t[i], LowerLetters)]
        ELSE t[i]]

\* str.startswith(prefix)
startswith(t, prefix) ==
    Len(t) >= Len(prefix) /\ SubSeq(t, 1, Len(prefix)) = prefix

\* The character of a code point, for the code points the decoders below
\* produce from ByteSet.
Chr(n) ==
    CASE n = 10 -> "\n"
      [] n = 97 -> "a"
      [] n = 129 -> "U+0081"
      [] n = 169 -> "U+00A9"
      [] n = 193 -> "U+00C1"
      [] n = 195 -> "U+00C3"
      [] n = 233 -> "U+00E9"

\* bytes.decode('utf-8'), strict, for the one- and two-byte forms: a byte
\* below 0x80 is a character, a lead byte 0xC2..0xDF takes one continuation
\* byte 0x80..0xBF, every other byte in that place is an error.
IsContinuation(b) == 128 <= b /\ b <= 191
IsLead2(b) == 194 <= b /\ b <= 223

RECURSIVE Utf8Valid(_)
Utf8Valid(bs) ==
    IF bs = << >> THEN TRUE
    ELSE IF bs[1] < 128 THEN Utf8Valid(Tail(bs))
    ELSE IF IsLead2(bs[1]) /\ Len(bs) >= 2 /\ IsContinuation(bs[2])
         THEN Utf8Valid(Tail(Tail(bs)))
    ELSE FALSE

RECURSIVE Utf8Points(_)
Utf8Points(bs) ==
    IF bs = << >> THEN << >>
    ELSE IF bs[1] < 128 THEN <<bs[1]>> \o Utf8Points(Tail(bs))
    ELSE <<(bs[1] - 192) * 64 + (bs[2] - 128)>> \o Utf8Points(Tail(Tail(bs)))

\* bytes.decode('cp1252'): five bytes have no character; the bytes outside
\* 0x80..0x9F decode to the code point of the same number.
Cp1252Undefined == {129, 141, 143, 144, 157}

\* Whether bs.decode(enc) returns instead of raising UnicodeDecodeError.
\* Latin-1 gives every byte a character.
Decodes(enc, bs) ==
    CASE enc = "utf-8" -> Utf8Valid(bs)
      [] enc = "latin-1" -> TRUE
      [] enc = "cp1252" -> \A i \in 1..Len(bs) : bs[i] \notin Cp1252Undefined

\* bs.decode(enc), where it returns.
Decode(enc, bs) ==
    LET points == IF enc = "utf-8" THEN Utf8Points(bs) ELSE bs
    IN [i \in 1..Len(points) |-> Chr(points[i])]

\* -------------------------------------------- the dispatch, lines 140-153
PdfType == Chars("application/pdf")
DocxType ==
    Chars("application/vnd.openxmlformats-officedocument.wordprocessingml.document")
MswordType == Chars("application/msword")
JsonType == Chars("application/json")
PlainType == Chars("text/plain")
TextPrefix == Chars("text/")

\* Line 146
IsPdfType(t) == t = PdfType
\* Line 148
IsDocxType(t) == t \in {DocxType, MswordType}
\* Line 150
IsTxtType(t) == startswith(t, TextPrefix) \/ t \in {JsonType, PlainType}

\* raise ValueError(f"{message}{detail}")
ValueError(message, detail) == <<"raise", "ValueError", message, detail>>

\* UnsupportedError without the type in its message.
UnsupportedErrorUnnamed(t) == ValueError("Unsupported file type", << >>)

\* Line 153
UnsupportedError(t) == ValueError("Unsupported file type: ", t)

\* Lines 108-110 returning what was read so far instead of raising.
PdfOnErrorReturnsPartial(partial, e) == <<"return", strip(partial)>>

\* Lines 108-110: whatever the parser raised, and whatever text was read
\* before it did, the decoder raises.
PdfOnError(partial, e) == ValueError("Failed to extract text from PDF: ", e)

\* Lines 122-124
DocxOnError(partial, e) == ValueError("Failed to extract text from DOCX: ", e)

\* Lines 135-138: the ValueError of line 135 is raised inside the try of line
\* 128, caught by line 136 and wrapped by line 138.
TxtOnError ==
    ValueError("Failed to extract text from TXT: ",
               Chars("Could not decode text file with any common encoding"))

\* Line 130 with Latin-1 tried first.
EncodingsLatinFirst == <<"latin-1", "utf-8", "cp1252">>

\* Line 130
Encodings == <<"utf-8", "latin-1", "cp1252">>

\* What the parser library raises.
NotCallable == Chars("'NoneType' object is not callable")
DocxMissing == Chars("python-docx not available")
ParseError == Chars("parse error")

\* ---------------------------------------------------------------- inputs
\* The bytes of file_content: a line feed, a letter, a byte that is a UTF-8
\* continuation byte and has no Windows-1252 character (0x81), a second
\* continuation byte (0xA9), and a UTF-8 lead byte (0xC3).
ByteSet == {10, 97, 129, 169, 195}

ByteStrings(n) == UNION {[1..k -> ByteSet] : k \in 0..n}

\* Media types as callers spell them: recognised ones, unrecognised ones,
\* near misses of recognised ones, each also in capitals and in mixed case.
TypeNames ==
    {PdfType, DocxType, MswordType, JsonType, PlainType, TextPrefix,
     Chars("text/csv"), Chars("text"), Chars("xtext/plain"),
     Chars("application/pdf "), Chars("application/json; charset=utf-8"),
     Chars("application/x-made-up"), Chars("image/png"), Chars("")}

MixedCase(t) ==
    [i \in 1..Len(t) |-> IF i % 2 = 1 THEN upper(<<t[i]>>)[1] ELSE t[i]]

TypeStrings == UNION {{t, upper(t), MixedCase(t)} : t \in TypeNames}

Filenames == {"report.pdf", "notes.txt"}

\* The text of one page or paragraph.
PageTexts == {<<"a">>, <<" ">>}

\* What reading the next page or paragraph gives: its text, or an exception.
PageResults == {<<"text", t>> : t \in PageTexts} \cup {<<"raise", ParseError>>}

\* No call of chunk_text is in progress.
ChunkIdle ==
    /\ text = << >>
    /\ chunk_size = 1
    /\ overlap = 0
    /\ pc = "idle"
    /\ start = 0
    /\ end = 0
    /\ chunk = << >>
    /\ last_sentence = -1
    /\ chunks = << >>
    /\ spans = << >>
    /\ win_start = 0
    /\ path = "none"
    /\ parity = 0
    /\ iterations = 0

\* A call of extract_text_from_file about to execute line 142.
ExtractCall(types, contents) ==
    /\ PdfReader \in {"None", "PdfReader"}
    /\ DocxDocument \in {"None", "DocxDocument"}
    /\ file_content \in contents
    /\ file_type \in types
    /\ filename \in Filenames
    /\ xpc = "call"
    /\ doc_text = << >>
    /\ n_read = 0
    /\ encoding = 1
    /\ outcome = <<"none">>
    /\ type_arg = file_type
    /\ invoked = << >>
    /\ tried = << >>
    /\ parser_failed = FALSE

ExtractInit ==
    /\ ChunkIdle
    /\ MessagesIdle
    /\ ServiceConstructed
    /\ ApiIdle
    /\ ExtractCall(TypeStrings, ByteStrings(MaxBytes))
    /\ filename = "report.pdf"

\* --------------------------------------------------------------- actions
\* Lines 100-153 assign the locals of the call only. The module-level names
\* PdfReader and DocxDocument are read, never assigned.
\* ExtractFrame for decoders that reset the client singleton of line 58.
ExtractFrameResettingClient ==
    /\ _supabase_client' = "None"
    /\ UNCHANGED <<chunkVars, apiVars, messageVars, _embeddings, embeddings,
                   supabase, PdfReader, DocxDocument>>

ExtractFrame ==
    UNCHANGED <<chunkVars, serviceVars, apiVars, messageVars, PdfReader,
                DocxDocument>>

\* Lines 142-147
DispatchPdf ==
    /\ xpc = "call"
    /\ \E t \in {lower(file_type)} :
          /\ IsPdfType(t)
          /\ file_type' = t
    /\ invoked' = Append(invoked, "pdf")
    /\ xpc' = "pdf"
    /\ ExtractFrame
    /\ UNCHANGED <<file_content, filename, doc_text, n_read, encoding,
                   outcome, type_arg, tried, parser_failed>>

\* Lines 142-149
DispatchDocx ==
    /\ xpc = "call"
    /\ \E t \in {lower(file_type)} :
          /\ ~IsPdfType(t)
          /\ IsDocxType(t)
          /\ file_type' = t
    /\ invoked' = Append(invoked, "docx")
    /\ xpc' = "docx"
    /\ ExtractFrame
    /\ UNCHANGED <<file_content, filename, doc_text, n_read, encoding,
                   outcome, type_arg, tried, parser_failed>>

\* Lines 142-151
DispatchTxt ==
    /\ xpc = "call"
    /\ \E t \in {lower(file_type)} :
          /\ ~IsPdfType(t)
          /\ ~IsDocxType(t)
          /\ IsTxtType(t)
          /\ file_type' = t
    /\ invoked' = Append(invoked, "txt")
    /\ xpc' = "txt"
    /\ ExtractFrame
    /\ UNCHANGED <<file_content, filename, doc_text, n_read, encoding,
                   outcome, type_arg, tried, parser_failed>>

\* Lines 142-146, 148, 150, 152-153
RaiseUnsupported ==
    /\ xpc = "call"
    /\ \E t \in {lower(file_type)} :
          /\ ~IsPdfType(t)
          /\ ~IsDocxType(t)
          /\ ~IsTxtType(t)
          /\ file_type' = t
          /\ outcome' = UnsupportedError(t)
    /\ xpc' = "done"
    /\ ExtractFrame
    /\ UNCHANGED <<file_content, filename, doc_text, n_read, encoding,
                   type_arg, invoked, tried, parser_failed>>

\* Lines 102-104, 108-110: PdfReader(BytesIO(file_content)). Calling the name
\* when it is None raises TypeError; the parser raises on bytes it cannot
\* read. Which bytes it can read is the library's matter.
PdfOpen ==
    /\ xpc = "pdf"
    /\ \E opened \in (IF PdfReader = "None" THEN {FALSE} ELSE BOOLEAN) :
          IF opened
          THEN /\ xpc' = "pdf_pages"
               /\ UNCHANGED <<outcome, parser_failed>>
          ELSE /\ outcome' = PdfOnError(<< >>, IF PdfReader = "None"
                                               THEN NotCallable ELSE ParseError)
               /\ parser_failed' = TRUE
               /\ xpc' = "done"
    /\ doc_text' = << >>
    /\ ExtractFrame
    /\ UNCHANGED <<file_content, file_type, filename, n_read, encoding,
                   type_arg, invoked, tried>>

\* Lines 105-106, 108-110: one more page, whose extract_text() returns its
\* text or raises.
PdfPage ==
    /\ xpc = "pdf_pages"
    /\ n_read < MaxPages
    /\ \E page \in PageResults :
          IF page[1] = "text"
          THEN /\ doc_text' = doc_text \o page[2] \o <<"\n">>
               /\ UNCHANGED <<xpc, outcome, parser_failed>>
          ELSE /\ outcome' = PdfOnError(doc_text, page[2])
               /\ parser_failed' = TRUE
               /\ xpc' = "done"
               /\ UNCHANGED doc_text
    /\ n_read' = n_read + 1
    /\ ExtractFrame
    /\ UNCHANGED <<file_content, file_type, filename, encoding, type_arg,
                   invoked, tried>>

\* Lines 105, 107: no page is left.
PdfReturn ==
    /\ xpc = "pdf_pages"
    /\ outcome' = <<"return", strip(doc_text)>>
    /\ xpc' = "done"
    /\ ExtractFrame
    /\ UNCHANGED <<file_content, file_type, filename, doc_text, n_read,
                   encoding, type_arg, invoked, tried, parser_failed>>

\* Lines 114-118, 122-124: ImportError when the library is missing, else
\* DocxDocument(BytesIO(file_content)).
DocxOpen ==
    /\ xpc = "docx"
    /\ \E opened \in (IF DocxDocument = "None" THEN {FALSE} ELSE BOOLEAN) :
          IF opened
          THEN /\ xpc' = "docx_paragraphs"
               /\ UNCHANGED <<outcome, parser_failed>>
          ELSE /\ outcome' = DocxOnError(<< >>, IF DocxDocument = "None"
                                                THEN DocxMissing ELSE ParseError)
               /\ parser_failed' = TRUE
               /\ xpc' = "done"
    /\ doc_text' = << >>
    /\ ExtractFrame
    /\ UNCHANGED <<file_content, file_type, filename, n_read, encoding,
                   type_arg, invoked, tried>>

\* Lines 119-120, 122-124
DocxParagraph ==
    /\ xpc = "docx_paragraphs"
    /\ n_read < MaxPages
    /\ \E paragraph \in PageResults :
          IF paragraph[1] = "text"
          THEN /\ doc_text' = doc_text \o paragraph[2] \o <<"\n">>
               /\ UNCHANGED <<xpc, outcome, parser_failed>>
          ELSE /\ outcome' = DocxOnError(doc_text, paragraph[2])
               /\ parser_failed' = TRUE
               /\ xpc' = "done"
               /\ UNCHANGED doc_text
    /\ n_read' = n_read + 1
    /\ ExtractFrame
    /\ UNCHANGED <<file_content, file_type, filename, encoding, type_arg,
                   invoked, tried>>

\* Lines 119, 121
DocxReturn ==
    /\ xpc = "docx_paragraphs"
    /\ outcome' = <<"return", strip(doc_text)>>
    /\ xpc' = "done"
    /\ ExtractFrame
    /\ UNCHANGED <<file_content, file_type, filename, doc_text, n_read,
                   encoding, type_arg, invoked, tried, parser_failed>>

\* Lines 128-138: one turn of the loop over the encodings, or, once the list
\* is exhausted, the error after it.
TxtDecode ==
    /\ xpc = "txt"
    /\ IF encoding > Len(Encodings)
       THEN /\ outcome' = TxtOnError
            /\ xpc' = "done"
            /\ UNCHANGED <<encoding, tried>>
       ELSE /\ tried' = Append(tried, Encodings[encoding])
            /\ IF Decodes(Encodings[encoding], file_content)
               THEN /\ outcome' = <<"return",
                                    Decode(Encodings[encoding], file_content)>>
                    /\ xpc' = "done"
                    /\ UNCHANGED encoding
               ELSE /\ encoding' = encoding + 1
                    /\ UNCHANGED <<xpc, outcome>>
    /\ ExtractFrame
    /\ UNCHANGED <<file_content, file_type, filename, doc_text, n_read,
                   type_arg, invoked, parser_failed>>

ExtractNext ==
    \/ DispatchPdf
    \/ DispatchDocx
    \/ DispatchTxt
    \/ RaiseUnsupported
    \/ PdfOpen
    \/ PdfPage
    \/ PdfReturn
    \/ DocxOpen
    \/ DocxParagraph
    \/ DocxReturn
    \/ TxtDecode

ExtractSpec == ExtractInit /\ [][ExtractNext]_vars

\* ------------------------------------------- interleaved invocations
\* Bounds of the specification that interleaves one call of chunk_text with
\* one call of extract_text_from_file: longest text and chunk_size.
ConcLen == 4
ConcS == 3

\* One spelling per route of the dispatch, and two contents: one that is
\* UTF-8 and one that only Latin-1 decodes.
ConcTypes == {PdfType, MswordType, upper(PlainType), Chars("image/png")}
ConcContents == {<<97>>, <<129>>}

\* Both calls are about to start, on inputs of their own.
ConcurrentInit ==
    /\ text \in Texts(DeepAlphabet, ConcLen)
    /\ chunk_size = ConcS
    /\ overlap \in 0..(chunk_size - 1)
    /\ Locals
    /\ MessagesIdle
    /\ ServiceConstructed
    /\ ApiIdle
    /\ ExtractCall(ConcTypes, ConcContents)
    /\ DocxDocument = "DocxDocument"
    /\ filename = "notes.txt"

\* The calls run on different threads: the next step is a step of either.
ConcurrentNext ==
    \/ Next
    \/ ExtractNext

ConcurrentSpec == ConcurrentInit /\ [][ConcurrentNext]_vars

\* ============================================ chat service and REST layer
\* ---------------------------------------------------------------- inputs
\* The operations of the external agent service, of its SDK and of the
\* vector store; each raises when called while it is in failing.
ExternalOps ==
    {"get_client", "threads.create", "runs.create", "runs.join",
     "threads.get_state", "table.delete"}

\* Identifiers the external service hands out.
NewThreadIds == {"thread-new"}
RunIds == {"run-1"}

\* thread_id and assistant_id of a ChatMessage (main.py lines 75-80): both
\* Optional[str].
ThreadIdArgs == {None, "", "thread-7"}
AssistantIdArgs == {None, "assistant-1"}

\* attachments of a ChatMessage: None, an empty list, a list of one.
NoAttachments == <<"None">>
AttachmentArgs == {NoAttachments, <<"list">>, <<"list", "a.pdf">>}

\* The messages of a thread state: none, one with content, one without the
\* key 'content' as the last.
StateValues == {<< >>, <<"answer">>, <<"answer", None>>}

ChatRequests ==
    {<<"POST /chat", t, a, att>> :
        t \in ThreadIdArgs, a \in AssistantIdArgs, att \in AttachmentArgs}

ThreadRequests == {<<"POST /chat/threads">>}

DeleteRequests ==
    {<<"DELETE /embeddings/{filename}", f>> : f \in Filenames}

\* The names an EmbeddingService object answers to (embedding_service.py
\* lines 64-361).
EmbeddingServiceAttributes ==
    {"embeddings", "supabase", "_get_embeddings", "_get_supabase_client",
     "download_file_from_url", "extract_text_from_pdf",
     "extract_text_from_docx", "extract_text_from_txt",
     "extract_text_from_file", "chunk_text", "embed_file",
     "search_documents", "delete_file_embeddings", "health_check"}

\* The parameters of LangGraphService.create_thread without a default
\* (langgraph_service.py line 84).
CreateThreadRequired == {"assistant_id"}

\* The arguments the call of main.py line 216 passes to it.
CreateChatThreadArguments == {}

\* ------------------------------------------------------------- operators
\* Truthy for a caller that treats every thread_id as given.
TruthyAlways(v) == TRUE

\* Python truth of an Optional[str]
Truthy(v) == v \notin {None, ""}

\* langgraph_service.py lines 28-39 behind "if not self.client": the value
\* of self.client afterwards. initialize() raises nothing.
AfterInitialize(c) ==
    IF c # None THEN c
    ELSE IF get_client # None /\ "get_client" \notin failing THEN "client"
    ELSE None

\* Raises for a client whose failed calls go unnoticed.
RaisesOnlyWithoutClient(c, op) == c = None

\* Whether self.client.<op>(...) raises: AttributeError on a client that is
\* None, else the operation's own failure.
Raises(c, op) == c = None \/ op \in failing

\* The record of an external call that reached the service.
Called(op, thread, r) == <<op, thread, r, IF op \in failing THEN "raised" ELSE "ok">>

\* The calls made by an attempt of op: none when there is no client.
Attempt(c, op, thread, r) ==
    IF c = None THEN calls ELSE Append(calls, Called(op, thread, r))

\* HTTPException(status_code, detail)
HTTPException(status, detail) == <<status, <<"detail", detail>>>>

\* langgraph_service.py lines 165-170, for the local messages of line 165.
ResponseContent(state_messages) ==
    IF state_messages # << >>
    THEN IF state_messages[Len(state_messages)] # None
         THEN state_messages[Len(state_messages)]
         ELSE "No response"
    ELSE "No response from agent"

\* main.py line 203: ChatResponse(**response) validates its fields; thread_id
\* and assistant_id must be strings (lines 83-89).
ChatResponseValid(result) == result[3] # None /\ result[4] # None

\* main.py line 217: ThreadCreateResponse(**response) validates its fields;
\* thread_id and assistant_id must be strings (lines 92-96).
ThreadCreateResponseValid(result) == result[2] # None /\ result[3] # None

\* A request has arrived; what the deployment and the external services are
\* like is fixed for the time it is handled.
ApiRequest(requests) ==
    /\ langgraph_service \in {None, "LangGraphService"}
    /\ embedding_service \in {None, "EmbeddingService"}
    /\ get_client \in {None, "get_client"}
    /\ failing \in SUBSET ExternalOps
    /\ client \in {None} \cup
          (IF langgraph_service # None /\ get_client # None
              /\ "get_client" \notin failing
           THEN {"client"} ELSE {})
    /\ request \in requests
    /\ hpc = "request"
    /\ thread_id = None
    /\ run = None
    /\ state = << >>
    /\ calls = << >>
    /\ service_result = <<"none">>
    /\ response = <<0, "none">>
    /\ documents = << >>
    /\ limit = 0
    /\ match_count = 0
    /\ results = << >>

\* main.py lines 20-30: the import of the embedding service failed, so no
\* service object and no singleton exists.
ServiceAbsent ==
    /\ _embeddings = None
    /\ _supabase_client = None
    /\ embeddings = None
    /\ supabase = None

ApiInit ==
    /\ ChunkIdle
    /\ MessagesIdle
    /\ ExtractIdle
    /\ ApiRequest(ChatRequests \cup ThreadRequests \cup DeleteRequests)
    /\ IF embedding_service = None THEN ServiceAbsent ELSE ServiceConstructed

\* The chat handlers and the delete handler assign nothing of the chunker,
\* the extractor or the embedding service, and no local of embed_file or
\* search_documents.
ApiFrame ==
    UNCHANGED <<chunkVars, extractVars, serviceVars, messageVars, documents,
                limit, match_count, results>>

\* --------------------------------------------------------------- actions
\* main.py lines 190-202: POST /chat enters send_message, or answers 503.
send_chat_message ==
    /\ hpc = "request"
    /\ request[1] = "POST /chat"
    /\ IF langgraph_service = None
       THEN /\ response' = HTTPException(503, "LangGraph service not available")
            /\ hpc' = "responded"
            /\ UNCHANGED thread_id
       ELSE /\ thread_id' = request[2]
            /\ hpc' = "send_message"
            /\ UNCHANGED response
    /\ ApiFrame
    /\ UNCHANGED <<langgraph_service, embedding_service, get_client, client,
                   failing, request, run, state, calls, service_result>>

\* langgraph_service.py lines 130-135: the client is initialised if there is
\* none, then the thread is created unless a thread_id was passed.
SendInitialize ==
    /\ hpc = "send_message"
    /\ client' = AfterInitialize(client)
    /\ hpc' = IF ~Truthy(thread_id) THEN "create_thread" ELSE "runs.create"
    /\ ApiFrame
    /\ UNCHANGED <<langgraph_service, embedding_service, get_client, failing,
                   request, thread_id, run, state, calls, service_result,
                   response>>

\* Lines 136-137 with create_thread, lines 84-97, and the handler of lines
\* 180-181.
SendCreateThread ==
    /\ hpc = "create_thread"
    /\ \E c \in {AfterInitialize(client)} :
          /\ client' = c
          /\ calls' = Attempt(c, "threads.create", None, None)
          /\ IF Raises(c, "threads.create")
             THEN /\ service_result' =
                        <<"raise", "Failed to send message: Failed to create thread">>
                  /\ hpc' = "send_message ended"
                  /\ UNCHANGED thread_id
             ELSE /\ thread_id' \in NewThreadIds
                  /\ hpc' = "runs.create"
                  /\ UNCHANGED service_result
    /\ ApiFrame
    /\ UNCHANGED <<langgraph_service, embedding_service, get_client, failing,
                   request, run, state, response>>

\* Lines 140-157, 180-181
SendCreateRun ==
    /\ hpc = "runs.create"
    /\ calls' = Attempt(client, "runs.create", thread_id, None)
    /\ IF Raises(client, "runs.create")
       THEN /\ service_result' = <<"raise", "Failed to send message: runs.create">>
            /\ hpc' = "send_message ended"
            /\ UNCHANGED run
       ELSE /\ run' \in RunIds
            /\ hpc' = "runs.join"
            /\ UNCHANGED service_result
    /\ ApiFrame
    /\ UNCHANGED <<langgraph_service, embedding_service, get_client, client,
                   failing, request, thread_id, state, response>>

\* Lines 158-159, 180-181
SendJoin ==
    /\ hpc = "runs.join"
    /\ calls' = Attempt(client, "runs.join", thread_id, run)
    /\ IF Raises(client, "runs.join")
       THEN /\ service_result' = <<"raise", "Failed to send message: runs.join">>
            /\ hpc' = "send_message ended"
       ELSE /\ hpc' = "threads.get_state"
            /\ UNCHANGED service_result
    /\ ApiFrame
    /\ UNCHANGED <<langgraph_service, embedding_service, get_client, client,
                   failing, request, thread_id, run, state, response>>

\* Lines 161-178, 180-181: the state is read and the response built from its
\* last message.
SendGetState ==
    /\ hpc = "threads.get_state"
    /\ calls' = Attempt(client, "threads.get_state", thread_id, None)
    /\ IF Raises(client, "threads.get_state")
       THEN /\ service_result' =
                  <<"raise", "Failed to send message: threads.get_state">>
            /\ UNCHANGED state
       ELSE \E state_messages \in StateValues :
               /\ state' = state_messages
               /\ service_result' =
                     <<"return", ResponseContent(state_messages), thread_id,
                       request[3], "success">>
    /\ hpc' = "send_message ended"
    /\ ApiFrame
    /\ UNCHANGED <<langgraph_service, embedding_service, get_client, client,
                   failing, request, thread_id, run, response>>

\* main.py lines 203-206: the handler answers with the validated response,
\* or with 500 for whatever was raised.
SendRespond ==
    /\ hpc = "send_message ended"
    /\ response' =
          IF service_result[1] = "raise"
          THEN HTTPException(500, service_result[2])
          ELSE IF ~ChatResponseValid(service_result)
          THEN HTTPException(500, "validation error for ChatResponse")
          ELSE <<200, <<"ChatResponse", service_result[2], service_result[3],
                        service_result[4], service_result[5]>>>>
    /\ hpc' = "responded"
    /\ ApiFrame
    /\ UNCHANGED <<langgraph_service, embedding_service, get_client, client,
                   failing, request, thread_id, run, state, calls,
                   service_result>>

\* main.py lines 209-220 with create_thread, langgraph_service.py lines
\* 84-97: the call of line 216 passes no argument, and a call that leaves a
\* required parameter out raises TypeError before the body runs.
create_chat_thread ==
    /\ hpc = "request"
    /\ request[1] = "POST /chat/threads"
    /\ IF langgraph_service = None
       THEN /\ response' = HTTPException(503, "LangGraph service not available")
            /\ UNCHANGED <<client, calls, service_result>>
       ELSE IF CreateThreadRequired \ CreateChatThreadArguments # {}
       THEN /\ service_result' = <<"raise", "TypeError: missing assistant_id">>
            /\ response' = HTTPException(500, "TypeError: missing assistant_id")
            /\ UNCHANGED <<client, calls>>
       ELSE \E c \in {AfterInitialize(client)}, new \in NewThreadIds :
               /\ client' = c
               /\ calls' = Attempt(c, "threads.create", None, None)
               /\ IF Raises(c, "threads.create")
                  THEN /\ service_result' = <<"raise", "Failed to create thread">>
                       /\ response' = HTTPException(500, "Failed to create thread")
                  ELSE \E created \in {<<"return", new, None, "created">>} :
                          /\ service_result' = created
                          /\ response' =
                                IF ThreadCreateResponseValid(created)
                                THEN <<200, <<"ThreadCreateResponse", new, None,
                                              "created">>>>
                                ELSE HTTPException(500,
                                        "validation error for ThreadCreateResponse")
    /\ hpc' = "responded"
    /\ ApiFrame
    /\ UNCHANGED <<langgraph_service, embedding_service, get_client, failing,
                   request, thread_id, run, state>>

\* main.py lines 344-355: the handler calls delete_document_embeddings on the
\* service object; looking up a name the object does not have raises
\* AttributeError. With the name found, embedding_service.py lines 308-329
\* run.
delete_document_embeddings ==
    /\ hpc = "request"
    /\ request[1] = "DELETE /embeddings/{filename}"
    /\ IF embedding_service = None
       THEN /\ response' = HTTPException(503, "Embedding service not available")
            /\ UNCHANGED <<calls, service_result>>
       ELSE IF "delete_document_embeddings" \notin EmbeddingServiceAttributes
       THEN /\ service_result' =
                  <<"raise", "AttributeError: delete_document_embeddings">>
            /\ response' =
                  HTTPException(500, "AttributeError: delete_document_embeddings")
            /\ UNCHANGED calls
       ELSE /\ calls' = Append(calls, Called("table.delete", request[2], None))
            /\ \E deleted \in (IF "table.delete" \in failing
                               THEN {"False"} ELSE {"True", "False"}) :
                  /\ service_result' = <<"return", deleted>>
                  /\ response' = <<200, <<"result", deleted>>>>
    /\ hpc' = "responded"
    /\ ApiFrame
    /\ UNCHANGED <<langgraph_service, embedding_service, get_client, client,
                   failing, request, thread_id, run, state>>

ApiNext ==
    \/ send_chat_message
    \/ SendInitialize
    \/ SendCreateThread
    \/ SendCreateRun
    \/ SendJoin
    \/ SendGetState
    \/ SendRespond
    \/ create_chat_thread
    \/ delete_document_embeddings

ApiSpec == ApiInit /\ [][ApiNext]_vars

\* ================================================ embedding REST handlers
\* Most chunks a split yields, and most rows the documents table holds.
MaxDocuments == 2
MaxStored == 5

\* The operations of the PDF loader, the splitter, the embedding model and
\* the vector store; each raises when called while it is in failing.
VectorOps ==
    {"PyPDFLoader.load", "split_documents", "from_documents", "embed_query",
     "rpc"}

\* A URL is the sequence of its parts between slashes.
FileUrls == {<<"files", "report.pdf">>, <<"notes.txt">>}

\* The page_content lengths of the chunks a split returns.
ContentLengths == {1, 3}
DocumentLists == UNION {[1..k -> ContentLengths] : k \in 0..MaxDocuments}

\* An Optional[int] is a sequence of no integer (None) or one.
Limits == {<< >>, <<0>>, <<1>>, <<2>>, <<4>>, <<5>>}

\* main.py lines 103-106, 115-118
EmbedRequests ==
    {<<"POST /embeddings/embed", t, u>> : t \in {PdfType}, u \in FileUrls}

SearchRequests ==
    {<<"POST /embeddings/search", q, l>> : q \in {"query"}, l \in Limits}

\* main.py line 318: request.file_url.split("/")[-1]
LastPart(url) == url[Len(url)]

\* main.py line 337: request.limit or 5
LimitOrDefault(l) == IF l = << >> \/ l[1] = 0 THEN 5 ELSE l[1]

\* embedding_service.py line 273: the match_count passed to async_rpc.
RpcMatchCount == 4

\* The sum of line 241.
RECURSIVE Sum(_)
Sum(ns) == IF ns = << >> THEN 0 ELSE ns[1] + Sum(Tail(ns))

\* embed_file with its handler of lines 245-250 re-raising.
EmbedOnErrorRaises(name, error) == <<"raise", error>>

\* embedding_service.py lines 245-250: the dictionary returned for any
\* exception (the keys documentId and chunks are absent).
EmbedOnError(name, error) == <<"return", FALSE, None, << >>, name, error, 0>>

\* Lines 236-242
EmbedSuccess(name, docs) ==
    <<"return", TRUE, "documentId", <<Len(docs)>>, name, None, Sum(docs)>>

\* Lines 283-300 after a nearest-neighbour query that returned n rows.
SearchResults(n) == [i \in 1..n |-> <<"content", "source">>]

\* Lines 302-304
SearchOnError(error) == <<<<"error", error>>>>

EmbeddingApiInit ==
    /\ ChunkIdle
    /\ MessagesIdle
    /\ ExtractIdle
    /\ langgraph_service \in {None, "LangGraphService"}
    /\ embedding_service \in {None, "EmbeddingService"}
    /\ get_client = "get_client"
    /\ client = None
    /\ failing \in SUBSET VectorOps
    /\ request \in EmbedRequests \cup SearchRequests
    /\ hpc = "request"
    /\ thread_id = None
    /\ run = None
    /\ state = << >>
    /\ calls = << >>
    /\ service_result = <<"none">>
    /\ response = <<0, "none">>
    /\ documents = << >>
    /\ limit = 0
    /\ match_count = 0
    /\ results = << >>
    /\ IF embedding_service = None THEN ServiceAbsent ELSE ServiceConstructed

\* The embedding handlers assign nothing of the chunker, the extractor, the
\* service object or the chat service.
EmbeddingFrame ==
    UNCHANGED <<chunkVars, extractVars, serviceVars, messageVars,
                langgraph_service, embedding_service, get_client, client,
                failing, request, thread_id, run, state>>

\* main.py lines 309-320: POST /embeddings/embed enters embed_file, or
\* answers 503.
embed_file ==
    /\ hpc = "request"
    /\ request[1] = "POST /embeddings/embed"
    /\ IF embedding_service = None
       THEN /\ response' = HTTPException(503, "Embedding service not available")
            /\ hpc' = "responded"
       ELSE /\ hpc' = "load_and_split_pdf"
            /\ UNCHANGED response
    /\ EmbeddingFrame
    /\ UNCHANGED <<calls, service_result, documents, limit, match_count,
                   results>>

\* embedding_service.py lines 196-218, 245-250: the PDF is loaded and split;
\* line 217 reads documents[0], which raises IndexError on an empty list.
EmbedLoadAndSplit ==
    /\ hpc = "load_and_split_pdf"
    /\ \E name \in {LastPart(request[3])} :
          IF "PyPDFLoader.load" \in failing
          THEN /\ calls' = Append(calls, Called("PyPDFLoader.load", name, None))
               /\ service_result' = EmbedOnError(name, "PyPDFLoader.load")
               /\ hpc' = "embed_file ended"
               /\ UNCHANGED documents
          ELSE IF "split_documents" \in failing
          THEN /\ calls' = calls \o <<Called("PyPDFLoader.load", name, None),
                                      Called("split_documents", name, None)>>
               /\ service_result' = EmbedOnError(name, "split_documents")
               /\ hpc' = "embed_file ended"
               /\ UNCHANGED documents
          ELSE \E docs \in DocumentLists :
                  /\ calls' = calls \o <<Called("PyPDFLoader.load", name, None),
                                         Called("split_documents", name, None)>>
                  /\ documents' = docs
                  /\ IF docs = << >>
                     THEN /\ service_result' =
                                EmbedOnError(name, "list index out of range")
                          /\ hpc' = "embed_file ended"
                     ELSE /\ hpc' = "create_vector_store"
                          /\ UNCHANGED service_result
    /\ EmbeddingFrame
    /\ UNCHANGED <<response, limit, match_count, results>>

\* Lines 220-243, 245-250: the chunks are stored and the result is built.
EmbedCreateVectorStore ==
    /\ hpc = "create_vector_store"
    /\ \E name \in {LastPart(request[3])} :
          /\ calls' = Append(calls, Called("from_documents", name, None))
          /\ service_result' =
                IF "from_documents" \in failing
                THEN EmbedOnError(name, "from_documents")
                ELSE EmbedSuccess(name, documents)
    /\ hpc' = "embed_file ended"
    /\ EmbeddingFrame
    /\ UNCHANGED <<response, documents, limit, match_count, results>>

\* main.py lines 321-324: the handler answers with the result as an
\* EmbedFileResponse (lines 108-113 keep success, documentId, chunks,
\* filename and error), or with 500 for whatever was raised.
EmbedRespond ==
    /\ hpc = "embed_file ended"
    /\ response' =
          IF service_result[1] = "raise"
          THEN HTTPException(500, service_result[2])
          ELSE <<200, <<"EmbedFileResponse", service_result[2],
                        service_result[3], service_result[4],
                        service_result[5], service_result[6]>>>>
    /\ hpc' = "responded"
    /\ EmbeddingFrame
    /\ UNCHANGED <<calls, service_result, documents, limit, match_count,
                   results>>

\* main.py lines 327-338: POST /embeddings/search enters search_documents,
\* or answers 503.
search_documents ==
    /\ hpc = "request"
    /\ request[1] = "POST /embeddings/search"
    /\ IF embedding_service = None
       THEN /\ response' = HTTPException(503, "Embedding service not available")
            /\ hpc' = "responded"
            /\ UNCHANGED limit
       ELSE /\ limit' = LimitOrDefault(request[3])
            /\ hpc' = "embed_query"
            /\ UNCHANGED response
    /\ EmbeddingFrame
    /\ UNCHANGED <<calls, service_result, documents, match_count, results>>

\* embedding_service.py lines 254-272, 302-304: the query is embedded.
SearchEmbedQuery ==
    /\ hpc = "embed_query"
    /\ calls' = Append(calls, Called("embed_query", request[2], None))
    /\ IF "embed_query" \in failing
       THEN /\ results' = SearchOnError("embed_query")
            /\ service_result' = <<"return", results'>>
            /\ hpc' = "search_documents ended"
       ELSE /\ hpc' = "rpc"
            /\ UNCHANGED <<results, service_result>>
    /\ EmbeddingFrame
    /\ UNCHANGED <<response, documents, limit, match_count>>

\* Lines 265-300, 302-304: the nearest-neighbour query is sent with its
\* match_count and answers with at most that many of the stored rows.
SearchRpc ==
    /\ hpc = "rpc"
    /\ match_count' = RpcMatchCount
    /\ calls' = Append(calls, Called("rpc", request[2], None))
    /\ IF "rpc" \in failing
       THEN results' = SearchOnError("rpc")
       ELSE \E stored \in 0..MaxStored :
               results' = SearchResults(Min(stored, match_count'))
    /\ service_result' = <<"return", results'>>
    /\ hpc' = "search_documents ended"
    /\ EmbeddingFrame
    /\ UNCHANGED <<response, documents, limit>>

\* main.py lines 339-341
SearchRespond ==
    /\ hpc = "search_documents ended"
    /\ response' = <<200, <<"SearchResponse", service_result[2]>>>>
    /\ hpc' = "responded"
    /\ EmbeddingFrame
    /\ UNCHANGED <<calls, service_result, documents, limit, match_count,
                   results>>

EmbeddingApiNext ==
    \/ embed_file
    \/ EmbedLoadAndSplit
    \/ EmbedCreateVectorStore
    \/ EmbedRespond
    \/ search_documents
    \/ SearchEmbedQuery
    \/ SearchRpc
    \/ SearchRespond

EmbeddingApiSpec == EmbeddingApiInit /\ [][EmbeddingApiNext]_vars

\* ================================================= in-memory message API
\* apps/ai-agent, src/ai_agent/main.py. The handlers are synchronous
\* functions, which the framework runs on worker threads.
Contents == {"hello"}

\* The message ids a client asks for: some never assigned.
MessageIds == 0..(MaxRequests + 1)

CreateRequests == {<<"POST /messages", c>> : c \in Contents}
GetRequests == {<<"GET /messages/{message_id}", i>> : i \in MessageIds}
DeleteMessageRequests ==
    {<<"DELETE /messages/{message_id}", i>> : i \in MessageIds}

\* Lines 87-88, 98-99: the index of the first message with that id, 0 when
\* the loop ends without one.
IndexOfId(ms, id) ==
    IF \E i \in 1..Len(ms) : ms[i].id = id
    THEN SetMin({i \in 1..Len(ms) : ms[i].id = id})
    ELSE 0

\* list.pop(i) of line 100, for the 1-based index i.
Pop(ms, i) == SubSeq(ms, 1, i - 1) \o SubSeq(ms, i + 1, Len(ms))

\* The counter taken from the length of the list.
IncrementedFromLength(n) == Len(messages) + 1

\* Line 65: the value message_counter += 1 writes back for the value n it
\* read.
Incremented(n) == n + 1

\* The handlers assign nothing of the other application.
MessagesFrame == UNCHANGED <<chunkVars, extractVars, serviceVars, apiVars>>

MessageInit ==
    /\ ChunkIdle
    /\ MessagesIdle
    /\ ExtractIdle
    /\ ServiceConstructed
    /\ ApiIdle

\* ------------------------------------------------------------- actions
\* Worker thread w takes one of the requests and enters its handler.
Receive(w, requests) ==
    /\ served < MaxRequests
    /\ \E r \in requests : mrequest' = [mrequest EXCEPT ![w] = r]
    /\ mpc' = [mpc EXCEPT ![w] = "handler"]
    /\ loaded' = [loaded EXCEPT ![w] = 0]
    /\ new_message' = [new_message EXCEPT ![w] = Unbound]
    /\ mresponse' = [mresponse EXCEPT ![w] = <<0, "none">>]
    /\ served' = served + 1
    /\ MessagesFrame
    /\ UNCHANGED <<messages, message_counter, issued>>

\* Requests executed one at a time: a request is taken when no other is
\* being handled.
ReceiveAlone(w) ==
    /\ \A v \in Workers : mpc[v] = "idle"
    /\ Receive(w, CreateRequests \cup GetRequests \cup DeleteMessageRequests)

\* Requests to create a message, taken by any idle worker.
ReceiveCreate(w) ==
    /\ mpc[w] = "idle"
    /\ Receive(w, CreateRequests)

\* Line 65, first half: message_counter += 1 reads the global.
CreateLoad(w) ==
    /\ mpc[w] = "handler"
    /\ mrequest[w][1] = "POST /messages"
    /\ loaded' = [loaded EXCEPT ![w] = message_counter]
    /\ mpc' = [mpc EXCEPT ![w] = "store"]
    /\ MessagesFrame
    /\ UNCHANGED <<messages, message_counter, mrequest, new_message,
                   mresponse, issued, served>>

\* Line 65, second half: the incremented value is written back.
CreateStore(w) ==
    /\ mpc[w] = "store"
    /\ message_counter' = Incremented(loaded[w])
    /\ mpc' = [mpc EXCEPT ![w] = "build"]
    /\ MessagesFrame
    /\ UNCHANGED <<messages, mrequest, loaded, new_message, mresponse,
                   issued, served>>

\* Lines 67-72: the dictionary is built with the global read again.
CreateBuild(w) ==
    /\ mpc[w] = "build"
    /\ new_message' =
          [new_message EXCEPT
              ![w] = [id |-> message_counter, content |-> mrequest[w][2],
                      status |-> "created"]]
    /\ issued' = Append(issued, message_counter)
    /\ mpc' = [mpc EXCEPT ![w] = "append"]
    /\ MessagesFrame
    /\ UNCHANGED <<messages, message_counter, mrequest, loaded, mresponse,
                   served>>

\* Lines 74-75
CreateAppend(w) ==
    /\ mpc[w] = "append"
    /\ messages' = Append(messages, new_message[w])
    /\ mresponse' = [mresponse EXCEPT ![w] = <<200, new_message[w]>>]
    /\ mpc' = [mpc EXCEPT ![w] = "idle"]
    /\ MessagesFrame
    /\ UNCHANGED <<message_counter, mrequest, loaded, new_message, issued,
                   served>>

\* Lines 84-91
get_message(w) ==
    /\ mpc[w] = "handler"
    /\ mrequest[w][1] = "GET /messages/{message_id}"
    /\ \E i \in {IndexOfId(messages, mrequest[w][2])} :
          mresponse' =
             [mresponse EXCEPT
                 ![w] = IF i # 0 THEN <<200, messages[i]>>
                        ELSE HTTPException(404, "Message not found")]
    /\ mpc' = [mpc EXCEPT ![w] = "idle"]
    /\ MessagesFrame
    /\ UNCHANGED <<messages, message_counter, mrequest, loaded, new_message,
                   issued, served>>

\* Lines 94-103
delete_message(w) ==
    /\ mpc[w] = "handler"
    /\ mrequest[w][1] = "DELETE /messages/{message_id}"
    /\ \E i \in {IndexOfId(messages, mrequest[w][2])} :
          IF i # 0
          THEN /\ messages' = Pop(messages, i)
               /\ mresponse' = [mresponse EXCEPT ![w] = <<200, messages[i]>>]
          ELSE /\ mresponse' =
                     [mresponse EXCEPT
                         ![w] = HTTPException(404, "Message not found")]
               /\ UNCHANGED messages
    /\ mpc' = [mpc EXCEPT ![w] = "idle"]
    /\ MessagesFrame
    /\ UNCHANGED <<message_counter, mrequest, loaded, new_message, issued,
                   served>>

MessageNext ==
    \E w \in Workers :
        \/ ReceiveAlone(w)
        \/ CreateLoad(w)
        \/ CreateStore(w)
        \/ CreateBuild(w)
        \/ CreateAppend(w)
        \/ get_message(w)
        \/ delete_message(w)

MessageSpec == MessageInit /\ [][MessageNext]_vars

\* Only requests to create a message, handled by the workers at once.
ConcurrentMessageNext ==
    \E w \in Workers :
        \/ ReceiveCreate(w)
        \/ CreateLoad(w)
        \/ CreateStore(w)
        \/ CreateBuild(w)
        \/ CreateAppend(w)

ConcurrentMessageSpec == MessageInit /\ [][ConcurrentMessageNext]_vars

\* ================================================================ claims
IsMark(c) == c \in {".", "!", "?"}
IsBlank(t) == \A i \in 1..Len(t) : IsSpace(t[i])
Iterated == path \in {"boundary", "full", "final"}
Returned == pc = "return"

\* The last boundary of window [s, s + chunk_size) as an offset into text:
\* the highest p in the window holding a mark, or starting a blank line that
\* lies inside the window; -1 when there is none.
WindowBoundary(s) ==
    LET e == WindowEnd(s)
        ps == {p \in Max(s, 0)..(e - 1) :
                  \/ IsMark(text[p + 1])
                  \/ p + 1 <= e - 1 /\ text[p + 1] = "\n" /\ text[p + 2] = "\n"}
    IN IF ps = {} THEN -1 ELSE SetMax(ps)

\* C1: chunk_text terminates: for every finite text and every 0 <= overlap <
\* chunk_size the call eventually returns its list.
C1_Terminates == <>Returned

\* C2: the returned chunks, with the first overlap characters removed from
\* every chunk but the first, concatenate to the trimmed input text.
RECURSIVE Reassemble(_, _)
Reassemble(cs, i) ==
    IF i > Len(cs) THEN << >>
    ELSE (IF i = 1 THEN cs[i] ELSE Slice(cs[i], overlap, Len(cs[i])))
         \o Reassemble(cs, i + 1)

C2_Coverage == Returned => Reassemble(chunks, 1) = strip(text)

\* C3: the source ranges of the returned chunks leave no gap: every
\* non-whitespace position of the text lies in one of them, and each range
\* begins at or before the end of the previous one.
Covered(p) == \E i \in 1..Len(spans) : spans[i][1] <= p /\ p < spans[i][2]

NonSpaceCovered ==
    \A p \in 0..(Len(text) - 1) : ~IsSpace(text[p + 1]) => Covered(p)

C3_NoGap ==
    Returned =>
        /\ NonSpaceCovered
        /\ \A i \in 1..(Len(spans) - 1) : spans[i + 1][1] <= spans[i][2]

\* C3 as amended: every non-whitespace position of the text lies in the range
\* of a returned chunk, and each range begins at or before the end of the
\* previous one or is separated from it by whitespace only. While the loop
\* runs the same holds of the positions before the furthest range appended.
Reach ==
    IF Returned THEN Len(text)
    ELSE SetMax({0} \cup {spans[i][2] : i \in 1..Len(spans)})

C3_NoGapButWhitespace ==
    /\ \A p \in 0..(Reach - 1) : ~IsSpace(text[p + 1]) => Covered(p)
    /\ \A i \in 1..(Len(spans) - 1) :
          \A p \in spans[i][2]..(spans[i + 1][1] - 1) : IsSpace(text[p + 1])

\* A returned list whose ranges cover every non-whitespace position although
\* a whitespace-only window between two of them was skipped.
C3_Witness ==
    /\ Returned
    /\ Len(spans) >= 2
    /\ \E i \in 1..(Len(spans) - 1) : spans[i + 1][1] > spans[i][2]
    /\ \E i \in 1..(Len(spans) - 1) : spans[i + 1][1] < spans[i][2]

\* C4: in every window before the end of the text, at any start: if the last
\* boundary of the window is at offset p of the text with p >= start +
\* chunk_size / 2, the chunk taken is text[start .. p] and the next start is
\* (p + 1) - overlap.
C4_BoundaryRule ==
    [][(/\ pc = "while"
        /\ 0 <= start /\ start < Len(text)
        /\ WindowEnd(start) < Len(text)
        /\ WindowBoundary(start) # -1
        /\ 2 * WindowBoundary(start) >= 2 * start + chunk_size)
       => /\ chunk' = Slice(text, start, WindowBoundary(start) + 1)
          /\ start' = WindowBoundary(start) + 1 - overlap]_vars

\* C5: for a text longer than chunk_size, the first chunk returned ends just
\* after a sentence mark whenever a mark occurs in the first window at an
\* offset >= chunk_size / 2.
FirstWindowMarks == {p \in 0..(Min(chunk_size, Len(text)) - 1) : IsMark(text[p + 1])}

C6_ShortTextTrimmed ==
    (Returned /\ Len(text) <= chunk_size /\ ~IsBlank(text))
    => chunks = <<strip(text)>>

\* C7: for the empty text and for every whitespace-only text, of any length,
\* chunk_text returns the empty list.
C7_BlankGivesEmpty == IsBlank(text) => <>(Returned /\ chunks = << >>)

\* C8: the returned chunks are in left-to-right order: each one starts at a
\* strictly greater offset of the text than the one before it.
C8_LeftToRight ==
    Returned => \A i \in 1..(Len(spans) - 1) : spans[i][1] < spans[i + 1][1]

\* C9: every chunk of the list has length at most chunk_size, whichever path
\* produced it.
C9_ChunkBounded == \A i \in 1..Len(chunks) : Len(chunks[i]) <= chunk_size

\* A returned list that holds a chunk truncated at a boundary, a chunk that
\* fills its window of chunk_size characters, and the final window.
C9_Witness ==
    /\ Returned
    /\ path = "final"
    /\ Len(chunks) = Len(spans)
    /\ \E i \in 1..(Len(spans) - 1) : spans[i][2] - spans[i][1] < chunk_size
    /\ \E i \in 1..Len(chunks) : Len(chunks[i]) = chunk_size

\* C10: no element of the list is empty or whitespace-only.
C10_NoBlankChunk == \A i \in 1..Len(chunks) : ~IsBlank(chunks[i])

\* A returned list of a text whose last window was whitespace only, and was
\* skipped, after chunks were appended.
C10_Witness ==
    /\ Returned
    /\ path = "final"
    /\ chunk # << >>
    /\ IsBlank(chunk)
    /\ chunks # << >>

\* ------------------------------------------------- extract_text_from_file
\* Two strings that differ at most in the case of their letters.
SameIgnoringCase(a, b) ==
    /\ Len(a) = Len(b)
    /\ \A i \in 1..Len(a) :
          \/ a[i] = b[i]
          \/ \E k \in 1..Len(LowerLetters) :
                {a[i], b[i]} = {LowerLetters[k], UpperLetters[k]}

NamesPdf(t) == SameIgnoringCase(t, Chars("application/pdf"))

NamesDocx(t) ==
    \/ SameIgnoringCase(t, Chars("application/msword"))
    \/ SameIgnoringCase(t,
          Chars("application/vnd.openxmlformats-officedocument.wordprocessingml.document"))

NamesText(t) ==
    \/ Len(t) >= 5 /\ SameIgnoringCase(SubSeq(t, 1, 5), Chars("text/"))
    \/ SameIgnoringCase(t, Chars("application/json"))

Extracted == xpc = "done"

\* C11: for every media type that, case-insensitively, is not
\* application/pdf, not a word-processing type, does not start with 'text/'
\* and is not application/json, extract_text_from_file raises an error whose
\* message is "Unsupported file type: " followed by the type string (in lower
\* case), and no decoder is ever invoked.
C11_UnsupportedNamed ==
    (/\ xpc # "idle"
     /\ ~NamesPdf(type_arg) /\ ~NamesDocx(type_arg) /\ ~NamesText(type_arg))
    => /\ invoked = << >>
       /\ xpc \in {"call", "done"}
       /\ Extracted =>
             /\ outcome[1] = "raise"
             /\ outcome[2] = "ValueError"
             /\ outcome[3] = "Unsupported file type: "
             /\ SameIgnoringCase(outcome[4], type_arg)
             /\ \A i \in 1..Len(outcome[4]) : ~IsUpper(outcome[4][i])

\* An unsupported type spelled with capitals was refused by name.
C11_Witness ==
    /\ Extracted
    /\ invoked = << >>
    /\ outcome[1] = "raise"
    /\ outcome[4] # << >>
    /\ outcome[4] # type_arg

\* C12: the decoder is chosen from the media type alone, whatever the case of
\* its letters, the file name and the content: application/pdf calls the PDF
\* decoder, the two word-processing types the DOCX decoder, every 'text/...'
\* type and application/json the plain-text decoder; a call with one of these
\* types invokes exactly one decoder, no call invokes more than one, and
\* after line 144 the call goes on with the lower-case spelling of the type,
\* the same for all spellings.
C12_DecoderByType ==
    xpc \notin {"idle", "call"}
    => /\ NamesPdf(type_arg) => invoked = <<"pdf">>
       /\ NamesDocx(type_arg) => invoked = <<"docx">>
       /\ NamesText(type_arg) => invoked = <<"txt">>
       /\ Len(invoked) <= 1
       /\ SameIgnoringCase(file_type, type_arg)
       /\ \A i \in 1..Len(file_type) : ~IsUpper(file_type[i])

\* A word-processing type spelled with capitals was decoded by the DOCX
\* decoder, to the end.
C12_Witness ==
    /\ Extracted
    /\ invoked = <<"docx">>
    /\ type_arg # file_type
    /\ outcome[1] = "return"
    /\ filename = "report.pdf"

AllEncodings == <<"utf-8", "latin-1", "cp1252">>

\* C13: extract_text_from_txt tries UTF-8, then Latin-1, then Windows-1252;
\* it returns the decoding of the first encoding that succeeds and tries none
\* after it; it raises only after all three have failed.
C13_EncodingOrder ==
    /\ \E n \in 0..3 : tried = SubSeq(AllEncodings, 1, n)
    /\ tried # << >> => invoked = <<"txt">>
    /\ xpc = "txt" => \A i \in 1..Len(tried) : ~Decodes(tried[i], file_content)
    /\ (Extracted /\ invoked = <<"txt">> /\ outcome[1] = "return")
       => /\ tried # << >>
          /\ \A i \in 1..(Len(tried) - 1) : ~Decodes(tried[i], file_content)
          /\ Decodes(tried[Len(tried)], file_content)
          /\ outcome[2] = Decode(tried[Len(tried)], file_content)
    /\ (Extracted /\ invoked = <<"txt">> /\ outcome[1] = "raise")
       => /\ tried = AllEncodings
          /\ \A i \in 1..3 : ~Decodes(AllEncodings[i], file_content)

\* Bytes that are not UTF-8 were returned as decoded from Latin-1, and
\* Windows-1252, which has no character for one of them, was not tried.
C13_Witness ==
    /\ Extracted
    /\ tried = <<"utf-8", "latin-1">>
    /\ outcome[1] = "return"
    /\ Len(outcome[2]) = Len(file_content)
    /\ ~Decodes("cp1252", file_content)

\* C14: once the PDF or DOCX parser has failed (malformed bytes, a page or
\* paragraph that cannot be read, or the library missing) the call ends by
\* raising: it returns no text, whatever was read before the failure.
C14_ParserFailureRaises ==
    parser_failed
    => /\ Extracted
       /\ outcome[1] = "raise"
       /\ outcome[2] = "ValueError"
       /\ invoked \in {<<"pdf">>, <<"docx">>}

\* The PDF parser failed on the second page, after the text of the first
\* had been read.
C14_Witness ==
    /\ parser_failed
    /\ invoked = <<"pdf">>
    /\ n_read = 2
    /\ doc_text # << >>
    /\ outcome[1] = "raise"

\* ------------------------------------------------ interleaved invocations
\* What chunk_text returns for text, chunk_size and overlap when nothing
\* runs beside it: the loop of lines 163-186 from offset s with the list cs,
\* for at most n iterations.
RECURSIVE ChunkTextFrom(_, _, _)
ChunkTextFrom(s, cs, n) ==
    IF ~(s < Len(text)) \/ n = 0 THEN cs
    ELSE CHOOSE result \in
            {IF e < Len(text)
             THEN IF BreakQualifies(ls, s)
                  THEN CHOOSE r \in
                          {ChunkTextFrom(s2, cs2, n - 1) :
                              s2 \in {BoundaryNextStart(ls)},
                              cs2 \in {Emit(cs, BoundaryChunk(s, ls))}} : TRUE
                  ELSE CHOOSE r \in
                          {ChunkTextFrom(s2, cs2, n - 1) :
                              s2 \in {FullNextStart(e)},
                              cs2 \in {Emit(cs, Window(s))}} : TRUE
             ELSE CHOOSE r \in
                     {ChunkTextFrom(s2, cs2, n - 1) :
                         s2 \in {FinalNextStart(e)},
                         cs2 \in {Emit(cs, Window(s))}} : TRUE :
                e \in {WindowEnd(s)}, ls \in {LastSentence(Window(s))}} : TRUE

ChunkTextAlone ==
    IF Len(text) <= chunk_size THEN ShortResult(text)
    ELSE ChunkTextFrom(0, << >>, Cap + 1)

\* What extract_text_from_file gives for file_type and file_content when
\* nothing runs beside it, the parser's answers being those it gave.
FirstDecoding ==
    LET k == SetMin({i \in 1..3 : Decodes(AllEncodings[i], file_content)})
    IN Decode(AllEncodings[k], file_content)

ExtractedAsAlone ==
    Extracted =>
        CASE invoked = << >> -> outcome = UnsupportedError(lower(type_arg))
          [] invoked = <<"txt">> -> outcome = <<"return", FirstDecoding>>
          [] OTHER -> IF parser_failed THEN outcome[1] = "raise"
                      ELSE outcome = <<"return", strip(doc_text)>>

\* C15: a call of chunk_text and a call of extract_text_from_file that run
\* interleaved do not interfere: a step of either leaves the other's
\* variables, the module-level singletons and the service fields unchanged,
\* and each call ends with the result it has when run alone (which no later
\* step of the other call can change).
C15_NoInterference ==
    [][/\ chunkVars' # chunkVars => UNCHANGED <<extractVars, serviceVars>>
       /\ extractVars' # extractVars => UNCHANGED <<chunkVars, serviceVars>>
       /\ (pc # "return" /\ pc' = "return") => chunks' = ChunkTextAlone'
       /\ (~Extracted /\ Extracted') => ExtractedAsAlone']_vars

\* Both calls are under way at once: chunk_text is inside its loop with a
\* chunk appended, the PDF decoder has read a page.
C15_Witness ==
    /\ pc = "while"
    /\ chunks # << >>
    /\ start > 0
    /\ xpc = "pdf_pages"
    /\ n_read >= 1

\* ------------------------------------------- chat service and REST layer
Responded == hpc = "responded"

\* A thread_id the caller supplied: a string that names a thread.
Supplied(v) == v # None /\ v # ""

\* The operations called so far, in order.
CalledOps == [i \in 1..Len(calls) |-> calls[i][1]]

\* The external calls of a complete send_message, with and without a
\* thread to create.
SendOrder(given) ==
    IF Supplied(given)
    THEN <<"runs.create", "runs.join", "threads.get_state">>
    ELSE <<"threads.create", "runs.create", "runs.join", "threads.get_state">>

\* C16: send_message calls, in this order: threads.create (only when no
\* thread_id was supplied), runs.create, runs.join, threads.get_state, and
\* calls nothing after a call that failed. The run is created on the
\* supplied thread_id, or on the one just created when none was supplied
\* (None or the empty string); the join is of that run on that thread, the
\* state is read from that thread only after the join has returned, and the
\* response carries that thread_id.
C16_CallOrder ==
    request[1] = "POST /chat"
    => /\ \E n \in 0..4 : CalledOps = SubSeq(SendOrder(request[2]), 1, n)
       /\ \A i \in 1..(Len(calls) - 1) : calls[i][4] = "ok"
       /\ \A i \in 1..Len(calls) :
             calls[i][1] # "threads.create"
             => /\ calls[i][2] = thread_id
                /\ Supplied(request[2]) => thread_id = request[2]
                /\ ~Supplied(request[2]) => thread_id \in NewThreadIds
       /\ \A i \in 1..Len(calls) :
             calls[i][1] = "runs.join" => calls[i][3] = run /\ run \in RunIds
       /\ service_result[1] = "return"
          => /\ CalledOps = SendOrder(request[2])
             /\ calls[Len(calls)][4] = "ok"
             /\ service_result[3] = thread_id
             /\ service_result[5] = "success"

\* A message without thread_id was answered: the thread was created, the run
\* created on it and joined, the state read, and the new thread_id returned.
C16_Witness ==
    /\ Responded
    /\ request[1] = "POST /chat"
    /\ request[2] = None
    /\ Len(calls) = 4
    /\ response[1] = 200
    /\ response[2][3] \in NewThreadIds

\* C17: DELETE /embeddings/{filename} with the embedding service available
\* reaches the deletion on the vector table for that filename and answers
\* with its result, not with an error.
C17_DeleteReachesStore ==
    (/\ Responded
     /\ request[1] = "DELETE /embeddings/{filename}"
     /\ embedding_service # None)
    => /\ \E i \in 1..Len(calls) :
             calls[i][1] = "table.delete" /\ calls[i][2] = request[2]
       /\ response[1] = 200

\* C18: POST /chat/threads with the chat service available and the external
\* thread creation succeeding answers with a new thread_id and status
\* 'created', not with HTTP 500.
C18_ThreadCreated ==
    (/\ Responded
     /\ request[1] = "POST /chat/threads"
     /\ langgraph_service # None
     /\ ~Raises(AfterInitialize(client), "threads.create"))
    => /\ response[1] = 200
       /\ response[2][1] = "ThreadCreateResponse"
       /\ response[2][2] \in NewThreadIds
       /\ response[2][4] = "created"

\* ------------------------------------------------- chunk_text, continued
\* C19: the scan offset start grows in every loop iteration, for every text
\* and every 0 <= overlap < chunk_size: its value after an iteration is
\* strictly greater than its value before, and it is never negative.
C19_StartAdvances ==
    [][(pc = "while" /\ start < Len(text))
       => (start' > start /\ start' >= 0)]_vars

\* The window at start reaches the end of the text.
AtFinalWindow == pc = "while" /\ start < Len(text) /\ ~(WindowEnd(start) < Len(text))

\* What the iteration on the final window does, and that nothing follows
\* it but the return.
FinalWindowStep ==
    /\ AtFinalWindow
       => /\ chunk' = Slice(text, start, Len(text))
          /\ chunks' = IF IsBlank(chunk') THEN chunks
                       ELSE Append(chunks, strip(chunk'))
          /\ last_sentence' = last_sentence
          /\ end' = Len(text)
          /\ start' = end'
          /\ pc' = "while"
    /\ path = "final"
       => /\ pc' = "return"
          /\ chunks' = chunks
          /\ spans' = spans

\* C20: on a text longer than chunk_size, the first window whose end reaches
\* the end of the text is the last one processed: its chunk is appended if
\* non-blank, with no boundary search, start is set to end, the loop stops
\* and nothing is appended afterwards; the last appended source range ends
\* at the end of the text.
C20_FinalWindow ==
    [][/\ FinalWindowStep
       /\ AtFinalWindow
          => /\ spans' # << >>
             /\ spans'[Len(spans')][2] = Len(text)]_vars

\* C20 as amended: as above, but the last appended source range ends at the
\* end of the text when the final window is not blank: it is then the range
\* [start, len(text)) that window was cut from, before trimming. A blank
\* final window appends nothing.
C20_FinalWindowUnlessBlank ==
    [][/\ FinalWindowStep
       /\ AtFinalWindow
          => IF IsBlank(Slice(text, start, Len(text)))
             THEN spans' = spans
             ELSE spans' = Append(spans, <<start, Len(text)>>)]_vars

\* The final window of a text was reached after other windows, was not
\* blank, and the call returned with its range last.
C20_Witness ==
    /\ Returned
    /\ path = "final"
    /\ win_start > 0
    /\ ~IsBlank(chunk)
    /\ Len(chunks) >= 2
    /\ spans[Len(spans)] = <<win_start, Len(text)>>
    /\ start = Len(text)

\* The window at start ends before the end of the text.
AtInnerWindow == pc = "while" /\ start < Len(text) /\ WindowEnd(start) < Len(text)

\* The window at s holds a boundary at or after s + chunk_size / 2, as an
\* offset into text.
WindowQualifies(s) ==
    /\ WindowBoundary(s) # -1
    /\ 2 * WindowBoundary(s) >= 2 * s + chunk_size

\* C21: a window before the end of the text that has no qualifying boundary
\* gives the full window text[start .. start + chunk_size) as its chunk and
\* end - overlap as the next start; and after every window before the end
\* of the text, truncated or full, the next start lies exactly overlap
\* characters before the end of the range the chunk was cut from.
C21_OverlapStep ==
    [][AtInnerWindow
       => /\ ~WindowQualifies(start)
             => /\ chunk' = Slice(text, start, start + chunk_size)
                /\ start >= 0
                   => /\ Len(chunk') = chunk_size
                      /\ \A i \in 1..chunk_size : chunk'[i] = text[start + i]
                /\ end' = start + chunk_size
                /\ start' = end' - overlap
          /\ chunk' = Slice(text, start, start' + overlap)
          /\ start >= 0 => start' = start + Len(chunk') - overlap]_vars

\* A full window was taken at a positive start, after a window that was cut
\* at a boundary, and the next start lies overlap characters before its end.
C21_Witness ==
    /\ pc = "while"
    /\ path = "full"
    /\ win_start > 0
    /\ ~WindowQualifies(win_start)
    /\ Len(chunk) = chunk_size
    /\ start = win_start + chunk_size - overlap
    /\ \E i \in 1..Len(spans) : spans[i][2] - spans[i][1] < chunk_size

\* C22: with 2 * overlap <= chunk_size every loop iteration leaves start
\* non-negative and at least 1 larger than before, so the loop runs at most
\* len(text) iterations and the call returns.
C22_HalfOverlapProgress ==
    /\ [][(pc = "while" /\ start < Len(text)) => start' >= start + 1]_vars
    /\ [](start >= 0)
    /\ [](iterations <= Len(text))
    /\ <>Returned

\* A call with a positive overlap returned after three or more iterations,
\* each of which appended a chunk that begins overlap characters before the
\* end of the one before.
C22_Witness ==
    /\ Returned
    /\ overlap >= 1
    /\ 2 * overlap <= chunk_size
    /\ iterations >= 3
    /\ Len(spans) = iterations
    /\ \A i \in 1..(Len(spans) - 1) : spans[i + 1][1] = spans[i][2] - overlap
    /\ \E i \in 1..Len(text) : IsMark(text[i])

\* ------------------------------------------------ embedding REST handlers
EmbedRequested == request[1] = "POST /embeddings/embed"

\* embed_file has ended: it returned or raised.
EmbedEnded ==
    /\ EmbedRequested
    /\ embedding_service # None
    /\ hpc \in {"embed_file ended", "responded"}

CallMade(op, status) ==
    \E i \in 1..Len(calls) : calls[i][1] = op /\ calls[i][4] = status

\* C23: embed_file never raises to its caller: a failure of loading,
\* splitting or storing gives a result with success = False and an error
\* message; success = True is returned only after the insertion into the
\* vector store has completed; a split that yields no chunk never reaches
\* the vector store and gives success = False.
C23_EmbedNeverRaises ==
    EmbedRequested
    => /\ service_result[1] # "raise"
       /\ response[1] # 500
       /\ EmbedEnded
          => /\ service_result[1] = "return"
             /\ service_result[2] = FALSE
                => service_result[6] # None /\ service_result[4] = << >>
             /\ (\E op \in VectorOps : CallMade(op, "raised"))
                => service_result[2] = FALSE
             /\ service_result[2] = TRUE
                => /\ calls[Len(calls)][1] = "from_documents"
                   /\ calls[Len(calls)][4] = "ok"
                   /\ documents # << >>
                   /\ service_result[4] = <<Len(documents)>>
             /\ (CallMade("split_documents", "ok") /\ documents = << >>)
                => /\ \A i \in 1..Len(calls) : calls[i][1] # "from_documents"
                   /\ service_result[2] = FALSE

\* The split yielded no chunk: the vector store was not called and the
\* handler answered with success = False and an error message.
C23_Witness ==
    /\ EmbedRequested
    /\ hpc = "responded"
    /\ CallMade("split_documents", "ok")
    /\ documents = << >>
    /\ ~CallMade("from_documents", "ok")
    /\ response[1] = 200
    /\ response[2][2] = FALSE
    /\ response[2][6] # None

\* C25: search_documents asks the vector store for exactly limit matches:
\* the match count of the nearest-neighbour query is the limit of the POST
\* /embeddings/search request, 5 when the request has none, so at most
\* limit results are returned.
C25_MatchCountIsLimit ==
    (request[1] = "POST /embeddings/search" /\ CallMade("rpc", "ok"))
    => /\ limit = (IF request[3] = << >> THEN 5 ELSE request[3][1])
       /\ match_count = limit
       /\ Len(results) <= limit

\* ----------------------------------------------------- chat, continued
\* send_message has ended: it returned or raised.
SendEnded ==
    /\ request[1] = "POST /chat"
    /\ langgraph_service # None
    /\ hpc \in {"send_message ended", "responded"}

\* An external step of send_message failed: a call raised, or there was no
\* client to call.
StepFailed == client = None \/ \E op \in ExternalOps : CallMade(op, "raised")

\* C24: when an external step of send_message fails (no client, thread
\* creation, run creation, join, state read) no later step is executed,
\* send_message raises and never returns a response with status 'success',
\* and POST /chat answers 500; a response with status 'success' implies that
\* run creation, join and state read all completed.
C24_FailureStops ==
    (request[1] = "POST /chat" /\ langgraph_service # None)
    => /\ \A i \in 1..Len(calls) : calls[i][4] = "raised" => i = Len(calls)
       /\ (hpc # "request" /\ hpc # "send_message" /\ client = None)
          => calls = << >>
       /\ (SendEnded /\ StepFailed)
          => /\ service_result[1] = "raise"
             /\ hpc = "responded" => response[1] = 500
       /\ (SendEnded /\ service_result[1] = "return")
          => /\ service_result[5] = "success"
             /\ CallMade("runs.create", "ok")
             /\ CallMade("runs.join", "ok")
             /\ CallMade("threads.get_state", "ok")
             /\ calls[Len(calls)][1] = "threads.get_state"
       /\ (hpc = "responded" /\ response[1] = 200)
          => /\ service_result[1] = "return"
             /\ response[2][5] = "success"

\* The join of a run on a newly created thread failed: the state was not
\* read and POST /chat answered 500.
C24_Witness ==
    /\ request[1] = "POST /chat"
    /\ hpc = "responded"
    /\ CallMade("threads.create", "ok")
    /\ CallMade("runs.create", "ok")
    /\ CallMade("runs.join", "raised")
    /\ Len(calls) = 3
    /\ service_result[1] = "raise"
    /\ response[1] = 500

\* ------------------------------------------------- in-memory message API
StoredIds == [i \in 1..Len(messages) |-> messages[i].id]

Distinct(seq) ==
    \A i, j \in 1..Len(seq) : i # j => seq[i] # seq[j]

\* Worker w is about to run delete_message for an id that is not stored.
DeletesAbsent(w) ==
    /\ mpc[w] = "handler"
    /\ mrequest[w][1] = "DELETE /messages/{message_id}"
    /\ \A i \in 1..Len(messages) : messages[i].id # mrequest[w][2]

\* C26: with the requests executed one at a time, the stored messages have
\* pairwise distinct ids in strictly increasing order, each between 1 and
\* message_counter; message_counter never decreases; no id is assigned
\* twice, so an id freed by delete_message is never assigned again; and
\* delete_message of an absent id answers 404 and leaves the list and the
\* counter unchanged.
C26_SerialIds ==
    /\ [](/\ Distinct(StoredIds)
          /\ \A i \in 1..(Len(messages) - 1) : StoredIds[i] < StoredIds[i + 1]
          /\ \A i \in 1..Len(messages) :
                1 <= StoredIds[i] /\ StoredIds[i] <= message_counter
          /\ Distinct(issued))
    /\ [][message_counter' >= message_counter]_vars
    /\ [][\A w \in Workers :
             (DeletesAbsent(w) /\ mpc'[w] = "idle")
             => /\ mresponse'[w][1] = 404
                /\ messages' = messages
                /\ message_counter' = message_counter]_vars

\* Messages 1 and 2 were created, 1 was deleted, and the message created
\* next got the id 3.
C26_Witness ==
    /\ issued = <<1, 2, 3>>
    /\ StoredIds = <<2, 3>>
    /\ message_counter = 3
    /\ \A w \in Workers : mpc[w] = "idle"

\* C27: with create_message requests handled concurrently, every request
\* receives an id different from every other request's id, and every created
\* message is in the stored list.
C27_ConcurrentIdsDistinct ==
    /\ Distinct(issued)
    /\ \A w \in Workers :
          mresponse[w][1] = 200
          => \E i \in 1..Len(messages) : messages[i] = mresponse[w][2]

====
